---- MODULE Spec2Model ----
(***************************************************************************)
(* Cafeteria ordering application: the Admin dashboard, the menu page      *)
(* (Index) and the Cart page, each a browser session talking to the        *)
(* backing store through asynchronous requests.  A request is a message in *)
(* `net`; the store serves it in a step of its own and puts the response   *)
(* back in `net`; the page handles the response in a later step.  Steps of *)
(* different sessions interleave freely.                                   *)
(***************************************************************************)
EXTENDS Integers, Sequences, FiniteSets, TLC

VARIABLES
    orders,       \* table orders: sequence of rows, the row's id is its index
    order_items,  \* table order_items: sequence of rows, in insertion order
    net,          \* requests and responses in flight
    auth,         \* per browser session: the user of its auth session, or NoUser
    admin,        \* per Admin page: its React state and checkAdmin's position
    items,        \* the cart store's lines (useCart), shared by Cart's renders
    cart,         \* the Cart page: its React state and handleCheckout's locals
    index         \* the Index page: its React state

vars == <<orders, order_items, net, auth, admin, items, cart, index>>

\* ------------------------------------------------------------------ bounds

MaxInFlight == 1    \* requests and responses one Admin page may have in flight
MaxOrders == 1      \* orders the Cart page's checkouts may create
MaxQty == 2         \* largest quantity of one cart line
MaxFetches == 1     \* fetches of one kind the Index page may have in flight

\* ------------------------------------------------------------- the store

NoUser == "none"
Users == {"u1", "u2"}
Admins == {"a1", "a2"}

\* table user_roles, read-only from the client
user_roles ==
    { [user_id |-> "u1", role |-> "admin"],
      [user_id |-> "u2", role |-> "customer"] }

StatusFlow == <<"queued", "preparing", "ready", "delivered">>

Rank(s) == CHOOSE k \in 1..Len(StatusFlow) : StatusFlow[k] = s

\* a row of orders as a select returns it
Row(i) ==
    [ id |-> i,
      user_id |-> orders[i].user_id,
      total_price |-> orders[i].total_price,
      payment_status |-> orders[i].payment_status,
      status |-> orders[i].status ]

\* .order("created_at", { ascending: false }) over the ids in S
RECURSIVE RowsDesc(_, _)
RowsDesc(n, S) ==
    IF n = 0 THEN <<>>
    ELSE IF n \in S THEN <<Row(n)>> \o RowsDesc(n - 1, S)
    ELSE RowsDesc(n - 1, S)

InFlight(s) == Cardinality({m \in net : m.from = s})

\* two requests of one page for the same operation are two messages: each carries
\* the least number no message of that page and operation in flight carries
FreeTag(op, s) ==
    LET used == {m.tag : m \in {x \in net : x.op = op /\ x.from = s}}
    IN  CHOOSE n \in 1..(Cardinality(used) + 1) :
            /\ n \notin used
            /\ \A k \in 1..(n - 1) : k \in used

Req(op, s) == {m \in net : m.op = op /\ m.dir = "req" /\ m.from = s}
Resp(op, s) == {m \in net : m.op = op /\ m.dir = "resp" /\ m.from = s}

\* ------------------------------------------------------------ Admin page

\* a role test that takes any role row for the admin role
hasAdminRole_AnyRole(m) == m.ok /\ m.roles # {}

\* roles?.some((r) => r.role === "admin"); data is null when the lookup failed
hasAdminRole(m) == m.ok /\ \E r \in m.roles : r.role = "admin"

\* buttons that let a queued order skip to ready
TransitionButtons_Skip(status) ==
    (IF status = "queued" THEN {"preparing", "ready"} ELSE {})
    \cup (IF status = "preparing" THEN {"ready"} ELSE {})
    \cup (IF status = "ready" THEN {"delivered"} ELSE {})

\* the buttons rendered for an order of the displayed status
TransitionButtons(status) ==
    (IF status = "queued" THEN {"preparing"} ELSE {})
    \cup (IF status = "preparing" THEN {"ready"} ELSE {})
    \cup (IF status = "ready" THEN {"delivered"} ELSE {})

\* what the Admin component renders of its orders state
RenderedOrders(a) ==
    IF ~admin[a].isAdmin THEN <<>>
    ELSE IF admin[a].loading THEN <<>>
    ELSE admin[a].orders

\* fetchOrders up to its await: setLoading(true) and the select
fetchOrdersCall(a, adm, nt) ==
    /\ admin' = [adm EXCEPT ![a].loading = TRUE]
    /\ net' = nt \cup {[op |-> "selectOrders", dir |-> "req", from |-> a,
                        tag |-> FreeTag("selectOrders", a)]}

\* checkAdmin, from getSession's result to the role lookup
checkAdminSession(a) ==
    /\ admin[a].pc = "getSession"
    /\ IF auth[a] = NoUser
       THEN /\ admin' = [admin EXCEPT ![a].nav = "/auth", ![a].pc = "done"]
            /\ UNCHANGED net
       ELSE /\ admin' = [admin EXCEPT ![a].pc = "roles"]
            /\ net' = net \cup {[op |-> "selectRoles", dir |-> "req", from |-> a,
                                 tag |-> 1, user_id |-> auth[a]]}
    /\ UNCHANGED <<orders, order_items, auth, items, cart, index>>

\* checkAdmin, from the role lookup's result on
checkAdminRoles(a) ==
    /\ admin[a].pc = "roles"
    /\ \E m \in Resp("selectRoles", a) :
        IF ~hasAdminRole(m)
        THEN /\ admin' = [admin EXCEPT ![a].nav = "/", ![a].pc = "done"]
             /\ net' = net \ {m}
        ELSE fetchOrdersCall(a, [admin EXCEPT ![a].isAdmin = TRUE, ![a].pc = "done"],
                             net \ {m})
    /\ UNCHANGED <<orders, order_items, auth, items, cart, index>>

\* fetchOrders, from the select's result on
fetchOrdersDone(a) ==
    /\ \E m \in Resp("selectOrders", a) :
        /\ net' = net \ {m}
        /\ IF m.ok
           THEN admin' = [admin EXCEPT ![a].orders = m.rows, ![a].loading = FALSE]
           ELSE admin' = [admin EXCEPT ![a].loading = FALSE]
    /\ UNCHANGED <<orders, order_items, auth, items, cart, index>>

\* a click on one of the rendered transition buttons: updateOrderStatus up to
\* its await
updateOrderStatus(a, orderId, newStatus) ==
    /\ admin[a].nav = ""
    /\ InFlight(a) < MaxInFlight
    /\ \E k \in 1..Len(RenderedOrders(a)) :
        /\ RenderedOrders(a)[k].id = orderId
        /\ newStatus \in TransitionButtons(RenderedOrders(a)[k].status)
    /\ net' = net \cup {[op |-> "updateStatus", dir |-> "req", from |-> a,
                         tag |-> FreeTag("updateStatus", a),
                         id |-> orderId, status |-> newStatus]}
    /\ UNCHANGED <<orders, order_items, auth, admin, items, cart, index>>

\* an updateOrderStatus that patches the displayed row instead of refetching
updateOrderStatusDone_PatchesRow(a) ==
    /\ \E m \in Resp("updateStatus", a) :
        /\ net' = net \ {m}
        /\ IF m.ok
           THEN admin' = [admin EXCEPT ![a].orders =
                    [k \in DOMAIN admin[a].orders |->
                        IF admin[a].orders[k].id = m.id
                        THEN [admin[a].orders[k] EXCEPT !.status = m.status]
                        ELSE admin[a].orders[k]]]
           ELSE UNCHANGED admin
    /\ UNCHANGED <<orders, order_items, auth, items, cart, index>>

\* updateOrderStatus, from the update's result on
updateOrderStatusDone(a) ==
    /\ \E m \in Resp("updateStatus", a) :
        IF m.ok
        THEN fetchOrdersCall(a, admin, net \ {m})
        ELSE /\ net' = net \ {m}
             /\ UNCHANGED admin
    /\ UNCHANGED <<orders, order_items, auth, items, cart, index>>

\* ------------------------------------------------- the store's operations

\* from("user_roles").select("role").eq("user_id", ...)
ServeSelectRoles ==
    /\ \E m \in net :
        /\ m.op = "selectRoles" /\ m.dir = "req"
        /\ \E ok \in BOOLEAN :
            net' = (net \ {m}) \cup
                {[op |-> "selectRoles", dir |-> "resp", from |-> m.from,
                  tag |-> m.tag, ok |-> ok,
                  roles |-> IF ok THEN {r \in user_roles : r.user_id = m.user_id}
                            ELSE {}]}
    /\ UNCHANGED <<orders, order_items, auth, admin, items, cart, index>>

\* from("orders").select(...).order("created_at", { ascending: false })
ServeSelectOrders ==
    /\ \E m \in net :
        /\ m.op = "selectOrders" /\ m.dir = "req"
        /\ \E ok \in BOOLEAN :
            net' = (net \ {m}) \cup
                {[op |-> "selectOrders", dir |-> "resp", from |-> m.from,
                  tag |-> m.tag, ok |-> ok,
                  rows |-> IF ok THEN RowsDesc(Len(orders), DOMAIN orders) ELSE <<>>]}
    /\ UNCHANGED <<orders, order_items, auth, admin, items, cart, index>>

\* an update whose payload also resets payment_status
ServeUpdateStatus_ResetsPayment ==
    /\ \E m \in net :
        /\ m.op = "updateStatus" /\ m.dir = "req"
        /\ \E ok \in BOOLEAN :
            /\ net' = (net \ {m}) \cup
                {[op |-> "updateStatus", dir |-> "resp", from |-> m.from,
                  tag |-> m.tag, ok |-> ok,
                  id |-> m.id, status |-> m.status]}
            /\ orders' = IF ok /\ m.id \in DOMAIN orders
                         THEN [orders EXCEPT ![m.id].status = m.status,
                                             ![m.id].payment_status = "pending"]
                         ELSE orders
    /\ UNCHANGED <<order_items, auth, admin, items, cart, index>>

\* from("orders").update({ status: newStatus }).eq("id", orderId)
ServeUpdateStatus ==
    /\ \E m \in net :
        /\ m.op = "updateStatus" /\ m.dir = "req"
        /\ \E ok \in BOOLEAN :
            /\ net' = (net \ {m}) \cup
                {[op |-> "updateStatus", dir |-> "resp", from |-> m.from,
                  tag |-> m.tag, ok |-> ok,
                  id |-> m.id, status |-> m.status]}
            /\ orders' = IF ok /\ m.id \in DOMAIN orders
                         THEN [orders EXCEPT ![m.id].status = m.status]
                         ELSE orders
    /\ UNCHANGED <<order_items, auth, admin, items, cart, index>>

\* ------------------------------------------------------------- Cart store

\* table menu_items
menu_items ==
    << [id |-> "dosa", category |-> "breakfast", price |-> 50, available |-> TRUE,
        is_special |-> TRUE],
       [id |-> "coffee", category |-> "beverages", price |-> 30, available |-> TRUE,
        is_special |-> TRUE],
       [id |-> "thali", category |-> "lunch", price |-> 80, available |-> FALSE,
        is_special |-> FALSE] >>

\* a cart line of menu item k
Line(k, q) == [id |-> menu_items[k].id, price |-> menu_items[k].price, quantity |-> q]

\* getTotal(): the sum of price * quantity over the lines
RECURSIVE getTotal(_)
getTotal(lines) ==
    IF lines = <<>> THEN 0
    ELSE Head(lines).price * Head(lines).quantity + getTotal(Tail(lines))

\* removeItem(id)
removeItem(lines, id) == SelectSeq(lines, LAMBDA l : l.id # id)

\* updateQuantity(id, qty): sets the quantity, removes the line if qty <= 0
updateQuantity(lines, id, qty) ==
    IF qty <= 0 THEN removeItem(lines, id)
    ELSE [k \in 1..Len(lines) |->
            IF lines[k].id = id THEN [lines[k] EXCEPT !.quantity = qty] ELSE lines[k]]

\* clearCart()
clearCart == <<>>

\* ------------------------------------------------------------- Cart page

Track(id) == "/track/" \o ToString(id)

\* items.map((item) => ({ order_id, menu_item_id, quantity, price }))
orderItems(orderId, lines) ==
    [k \in 1..Len(lines) |->
        [order_id |-> orderId, menu_item_id |-> lines[k].id,
         quantity |-> lines[k].quantity, price |-> lines[k].price]]

\* the mount effect: getSession().then(...)
cartGetSession ==
    /\ cart.pc = "getSession"
    /\ IF auth["cart"] = NoUser
       THEN cart' = [cart EXCEPT !.pc = "mounted",
                                 !.nav = IF cart.nav = "" THEN "/auth" ELSE cart.nav]
       ELSE cart' = [cart EXCEPT !.pc = "mounted", !.userId = auth["cart"]]
    /\ UNCHANGED <<orders, order_items, net, auth, admin, items, index>>

\* the quantity buttons of a rendered line (they stay enabled during a checkout)
cartQuantityButton(k, d) ==
    /\ cart.nav = ""
    /\ k \in 1..Len(items)
    /\ items[k].quantity + d <= MaxQty
    /\ items' = updateQuantity(items, items[k].id, items[k].quantity + d)
    /\ UNCHANGED <<orders, order_items, net, auth, admin, cart, index>>

\* the remove button of a rendered line
cartRemoveButton(k) ==
    /\ cart.nav = ""
    /\ k \in 1..Len(items)
    /\ items' = removeItem(items, items[k].id)
    /\ UNCHANGED <<orders, order_items, net, auth, admin, cart, index>>

\* a handleCheckout without the userId check
handleCheckout_NoAuthCheck ==
    /\ cart.nav = ""
    /\ ~cart.loading
    /\ IF items = <<>>
       THEN UNCHANGED <<cart, net>>
       ELSE /\ Len(orders) < MaxOrders
            /\ cart' = [cart EXCEPT !.loading = TRUE, !.step = "insertOrder",
                                    !.closure = items]
            /\ net' = net \cup
                {[op |-> "insertOrder", dir |-> "req", from |-> "cart",
                  row |-> [user_id |-> cart.userId, total_price |-> getTotal(items),
                           payment_status |-> "pending", status |-> "queued"]]}
    /\ UNCHANGED <<orders, order_items, auth, admin, items, index>>

\* handleCheckout up to its first await.  `closure` is the items array of the
\* render the handler belongs to; getTotal() reads the store at the call.
handleCheckout ==
    /\ cart.nav = ""
    /\ ~cart.loading
    /\ IF items = <<>>
       THEN UNCHANGED <<cart, net>>
       ELSE IF cart.userId = NoUser
       THEN /\ cart' = [cart EXCEPT !.nav = "/auth"]
            /\ UNCHANGED net
       ELSE /\ Len(orders) < MaxOrders
            /\ cart' = [cart EXCEPT !.loading = TRUE, !.step = "insertOrder",
                                    !.closure = items]
            /\ net' = net \cup
                {[op |-> "insertOrder", dir |-> "req", from |-> "cart",
                  row |-> [user_id |-> cart.userId, total_price |-> getTotal(items),
                           payment_status |-> "pending", status |-> "queued"]]}
    /\ UNCHANGED <<orders, order_items, auth, admin, items, index>>

\* a catch that also clears the cart
checkoutFailed_ClearsCart(m) ==
    /\ cart' = [cart EXCEPT
                   !.toast = IF m.message # "" THEN m.message
                             ELSE "Failed to place order",
                   !.loading = FALSE, !.step = "idle"]
    /\ net' = net \ {m}
    /\ items' = clearCart

\* catch and finally: toast.error(error.message || "Failed to place order"),
\* setLoading(false)
checkoutFailed(m) ==
    /\ cart' = [cart EXCEPT
                   !.toast = IF m.message # "" THEN m.message
                             ELSE "Failed to place order",
                   !.loading = FALSE, !.step = "idle"]
    /\ net' = net \ {m}
    /\ UNCHANGED items

\* an order step that builds the order_items rows from the cart as it is when the
\* insert returns, not from the handler's own items
checkoutOrderDone_LiveItems ==
    /\ cart.step = "insertOrder"
    /\ \E m \in Resp("insertOrder", "cart") :
        IF m.ok
        THEN /\ cart' = [cart EXCEPT !.order = m.id, !.step = "insertItems"]
             /\ net' = (net \ {m}) \cup
                 {[op |-> "insertItems", dir |-> "req", from |-> "cart",
                   rows |-> orderItems(m.id, items)]}
             /\ UNCHANGED items
        ELSE checkoutFailed(m)
    /\ UNCHANGED <<orders, order_items, auth, admin, index>>

\* an order step that does not await the order_items insert before the payment
\* update
checkoutOrderDone_NoAwait ==
    /\ cart.step = "insertOrder"
    /\ \E m \in Resp("insertOrder", "cart") :
        IF m.ok
        THEN /\ cart' = [cart EXCEPT !.order = m.id, !.step = "updatePaid"]
             /\ net' = (net \ {m}) \cup
                 {[op |-> "insertItems", dir |-> "req", from |-> "cart",
                   rows |-> orderItems(m.id, cart.closure)],
                  [op |-> "updatePaid", dir |-> "req", from |-> "cart", id |-> m.id]}
             /\ UNCHANGED items
        ELSE checkoutFailed(m)
    /\ UNCHANGED <<orders, order_items, auth, admin, index>>

\* handleCheckout from the order insert's result to the order_items insert
checkoutOrderDone ==
    /\ cart.step = "insertOrder"
    /\ \E m \in Resp("insertOrder", "cart") :
        IF m.ok
        THEN /\ cart' = [cart EXCEPT !.order = m.id, !.step = "insertItems"]
             /\ net' = (net \ {m}) \cup
                 {[op |-> "insertItems", dir |-> "req", from |-> "cart",
                   rows |-> orderItems(m.id, cart.closure)]}
             /\ UNCHANGED items
        ELSE checkoutFailed(m)
    /\ UNCHANGED <<orders, order_items, auth, admin, index>>

\* an items step that does not read itemsError
checkoutItemsDone_IgnoreError ==
    /\ cart.step = "insertItems"
    /\ \E m \in Resp("insertItems", "cart") :
        /\ cart' = [cart EXCEPT !.step = "updatePaid"]
        /\ net' = (net \ {m}) \cup
            {[op |-> "updatePaid", dir |-> "req", from |-> "cart", id |-> cart.order]}
        /\ UNCHANGED items
    /\ UNCHANGED <<orders, order_items, auth, admin, index>>

\* handleCheckout from the order_items insert's result to the payment update
checkoutItemsDone ==
    /\ cart.step = "insertItems"
    /\ \E m \in Resp("insertItems", "cart") :
        IF m.ok
        THEN /\ cart' = [cart EXCEPT !.step = "updatePaid"]
             /\ net' = (net \ {m}) \cup
                 {[op |-> "updatePaid", dir |-> "req", from |-> "cart",
                   id |-> cart.order]}
             /\ UNCHANGED items
        ELSE checkoutFailed(m)
    /\ UNCHANGED <<orders, order_items, auth, admin, index>>

\* handleCheckout from the payment update's result to its end
checkoutPaidDone ==
    /\ cart.step = "updatePaid"
    /\ \E m \in Resp("updatePaid", "cart") :
        IF m.ok
        THEN /\ cart' = [cart EXCEPT !.toast = "Order placed successfully!",
                                     !.nav = Track(cart.order),
                                     !.loading = FALSE, !.step = "idle"]
             /\ items' = clearCart
             /\ net' = net \ {m}
        ELSE checkoutFailed(m)
    /\ UNCHANGED <<orders, order_items, auth, admin, index>>

\* ----------------------------------------- the store's operations, Cart's

ErrorMessages == {"", "backend error"}

\* from("orders").insert({...}).select().single()
ServeInsertOrder ==
    /\ \E m \in net :
        /\ m.op = "insertOrder" /\ m.dir = "req"
        /\ \/ /\ orders' = Append(orders, m.row)
              /\ net' = (net \ {m}) \cup
                  {[op |-> "insertOrder", dir |-> "resp", from |-> m.from, ok |-> TRUE,
                    id |-> Len(orders) + 1, message |-> ""]}
           \/ /\ \E msg \in ErrorMessages :
                  net' = (net \ {m}) \cup
                      {[op |-> "insertOrder", dir |-> "resp", from |-> m.from,
                        ok |-> FALSE, id |-> 0, message |-> msg]}
              /\ UNCHANGED orders
    /\ UNCHANGED <<order_items, auth, admin, items, cart, index>>

\* from("order_items").insert(orderItems)
ServeInsertItems ==
    /\ \E m \in net :
        /\ m.op = "insertItems" /\ m.dir = "req"
        /\ \/ /\ order_items' = order_items \o m.rows
              /\ net' = (net \ {m}) \cup
                  {[op |-> "insertItems", dir |-> "resp", from |-> m.from, ok |-> TRUE,
                    message |-> ""]}
           \/ /\ \E msg \in ErrorMessages :
                  net' = (net \ {m}) \cup
                      {[op |-> "insertItems", dir |-> "resp", from |-> m.from,
                        ok |-> FALSE, message |-> msg]}
              /\ UNCHANGED order_items
    /\ UNCHANGED <<orders, auth, admin, items, cart, index>>

\* from("orders").update({ payment_status: "paid" }).eq("id", order.id)
ServeUpdatePaid ==
    /\ \E m \in net :
        /\ m.op = "updatePaid" /\ m.dir = "req"
        /\ \/ /\ orders' = IF m.id \in DOMAIN orders
                           THEN [orders EXCEPT ![m.id].payment_status = "paid"]
                           ELSE orders
              /\ net' = (net \ {m}) \cup
                  {[op |-> "updatePaid", dir |-> "resp", from |-> m.from, ok |-> TRUE,
                    message |-> ""]}
           \/ /\ \E msg \in ErrorMessages :
                  net' = (net \ {m}) \cup
                      {[op |-> "updatePaid", dir |-> "resp", from |-> m.from,
                        ok |-> FALSE, message |-> msg]}
              /\ UNCHANGED orders
    /\ UNCHANGED <<order_items, auth, admin, items, cart, index>>

\* ------------------------------------------------------------ Index page

ActiveStatuses == {"queued", "preparing", "ready"}

CategoryOrder == <<"beverages", "breakfast", "lunch", "snacks">>

CategoryRank(c) == CHOOSE k \in 1..Len(CategoryOrder) : CategoryOrder[k] = c

\* .eq("available", true).order("category", { ascending: true })
RECURSIVE AvailableByCategory(_)
AvailableByCategory(k) ==
    IF k > Len(CategoryOrder) THEN <<>>
    ELSE SelectSeq(menu_items,
                   LAMBDA it : it.available /\ CategoryRank(it.category) = k)
         \o AvailableByCategory(k + 1)

\* what the Index component renders of its activeOrders state
RenderedActiveOrders ==
    IF index.user # NoUser /\ Len(index.activeOrders) > 0
    THEN index.activeOrders
    ELSE <<>>

\* the header shows the Admin button
RenderedAdminButton == index.user # NoUser /\ index.isAdmin

FetchesInFlight(op) == Cardinality({m \in net : m.op = op /\ m.from = "index"})

\* the [user] effect of the render that follows setUser: fetchMenuItems up to its
\* await, and fetchActiveOrders up to its await when a user is set
userEffect(idx, nt) ==
    /\ index' = [idx EXCEPT !.loading = TRUE]
    /\ net' = nt
        \cup {[op |-> "selectMenu", dir |-> "req", from |-> "index",
               tag |-> FreeTag("selectMenu", "index")]}
        \cup (IF idx.user # NoUser
              THEN {[op |-> "selectActive", dir |-> "req", from |-> "index",
                     tag |-> FreeTag("selectActive", "index"),
                     user_id |-> idx.user]}
              ELSE {})

\* setUser(u): a user object is a new value of the [user] dependency, null after
\* null is not
setUser(u, idx, nt) ==
    IF u = NoUser /\ idx.user = NoUser
    THEN index' = idx /\ net' = nt
    ELSE userEffect([idx EXCEPT !.user = u], nt)

CanFetch ==
    /\ FetchesInFlight("selectMenu") < MaxFetches
    /\ FetchesInFlight("selectActive") < MaxFetches

\* checkAuth, from getSession's result to the role lookup
checkAuthSession ==
    /\ index.pc = "getSession"
    /\ CanFetch
    /\ IF auth["index"] = NoUser
       THEN setUser(NoUser, [index EXCEPT !.pc = "done"], net)
       ELSE setUser(auth["index"], [index EXCEPT !.pc = "roles"],
                    net \cup {[op |-> "selectRoles", dir |-> "req", from |-> "index",
                               tag |-> 1, user_id |-> auth["index"]]})
    /\ UNCHANGED <<orders, order_items, auth, admin, items, cart>>

\* roles?.some((r) => r.role === "admin") || false
rolesSomeAdmin(m) == (m.ok /\ \E r \in m.roles : r.role = "admin") \/ FALSE

\* checkAuth, from the role lookup's result on
checkAuthRoles ==
    /\ index.pc = "roles"
    /\ \E m \in Resp("selectRoles", "index") :
        /\ index' = [index EXCEPT !.isAdmin = rolesSomeAdmin(m), !.pc = "done"]
        /\ net' = net \ {m}
    /\ UNCHANGED <<orders, order_items, auth, admin, items, cart>>

\* the onAuthStateChange callback: a sign-in or sign-out in another tab, or the
\* session announced or refreshed for the same user
onAuthStateChange(u) ==
    /\ index.pc # "unmounted"
    /\ CanFetch
    /\ \/ auth["index"] = NoUser /\ u # NoUser
       \/ auth["index"] # NoUser /\ u \in {NoUser, auth["index"]}
    /\ auth' = [auth EXCEPT !["index"] = u]
    /\ setUser(u, index, net)
    /\ UNCHANGED <<orders, order_items, admin, items, cart>>

\* handleSignOut up to its await
handleSignOut ==
    /\ index.user # NoUser
    /\ ~index.signingOut
    /\ index' = [index EXCEPT !.signingOut = TRUE]
    /\ UNCHANGED <<orders, order_items, net, auth, admin, items, cart>>

\* handleSignOut after signOut() resolved (its error is not read)
handleSignOutDone ==
    /\ index.signingOut
    /\ CanFetch
    /\ \E ok \in BOOLEAN :
        auth' = [auth EXCEPT !["index"] = IF ok THEN NoUser ELSE auth["index"]]
    /\ setUser(NoUser,
               [index EXCEPT !.toast = "Signed out successfully", !.isAdmin = FALSE,
                             !.signingOut = FALSE],
               net)
    /\ UNCHANGED <<orders, order_items, admin, items, cart>>

\* a fetchMenuItems that empties the menu when the select fails
fetchMenuItemsDone_ClearsMenu(m) ==
    /\ net' = net \ {m}
    /\ IF m.ok
       THEN index' = [index EXCEPT !.menuItems = m.menu, !.loading = FALSE]
       ELSE index' = [index EXCEPT !.toast = "Failed to load menu",
                                   !.menuItems = <<>>, !.loading = FALSE]
    /\ UNCHANGED <<orders, order_items, auth, admin, items, cart>>

\* fetchMenuItems, from the select's result on
fetchMenuItemsDone(m) ==
    /\ net' = net \ {m}
    /\ IF m.ok
       THEN index' = [index EXCEPT !.menuItems = m.menu, !.loading = FALSE]
       ELSE index' = [index EXCEPT !.toast = "Failed to load menu",
                                   !.loading = FALSE]
    /\ UNCHANGED <<orders, order_items, auth, admin, items, cart>>

\* fetchActiveOrders, from the select's result on
fetchActiveOrdersDone(m) ==
    /\ net' = net \ {m}
    /\ IF m.ok
       THEN index' = [index EXCEPT !.activeOrders = m.rows]
       ELSE UNCHANGED index
    /\ UNCHANGED <<orders, order_items, auth, admin, items, cart>>

\* from("menu_items").select("*").eq("available", true).order("category")
ServeSelectMenu ==
    /\ \E m \in net :
        /\ m.op = "selectMenu" /\ m.dir = "req"
        /\ \E ok \in BOOLEAN :
            net' = (net \ {m}) \cup
                {[op |-> "selectMenu", dir |-> "resp", from |-> m.from,
                  tag |-> m.tag, ok |-> ok,
                  menu |-> IF ok THEN AvailableByCategory(1) ELSE <<>>]}
    /\ UNCHANGED <<orders, order_items, auth, admin, items, cart, index>>

\* the query without its status filter
ActiveOrdersQuery_AllStatuses(userId) ==
    RowsDesc(Len(orders), {i \in DOMAIN orders : orders[i].user_id = userId})

\* from("orders").select("*").eq("user_id", user.id)
\*   .in("status", ["queued", "preparing", "ready"]).order("created_at", desc)
ActiveOrdersQuery(userId) ==
    RowsDesc(Len(orders),
             {i \in DOMAIN orders :
                 orders[i].user_id = userId /\ orders[i].status \in ActiveStatuses})

ServeSelectActive ==
    /\ \E m \in net :
        /\ m.op = "selectActive" /\ m.dir = "req"
        /\ \E ok \in BOOLEAN :
            net' = (net \ {m}) \cup
                {[op |-> "selectActive", dir |-> "resp", from |-> m.from,
                  tag |-> m.tag, ok |-> ok, user_id |-> m.user_id,
                  rows |-> IF ok THEN ActiveOrdersQuery(m.user_id) ELSE <<>>]}
    /\ UNCHANGED <<orders, order_items, auth, admin, items, cart, index>>

\* ------------------------------------------------------- specifications

AdminMounted ==
    [pc |-> "getSession", isAdmin |-> FALSE, loading |-> TRUE, orders |-> <<>>,
     nav |-> ""]

AdminUnmounted ==
    [pc |-> "unmounted", isAdmin |-> FALSE, loading |-> TRUE, orders |-> <<>>,
     nav |-> ""]

CartMounted ==
    [pc |-> "getSession", loading |-> FALSE, userId |-> NoUser, nav |-> "",
     toast |-> "", step |-> "idle", closure |-> <<>>, order |-> 0]

CartUnmounted == [CartMounted EXCEPT !.pc = "unmounted", !.nav = "/"]

\* Index after its first render's effects: checkAuth awaits getSession, the
\* subscription is registered, fetchMenuItems was called
IndexMounted ==
    [pc |-> "getSession", menuItems |-> <<>>, activeOrders |-> <<>>, loading |-> TRUE,
     user |-> NoUser, isAdmin |-> FALSE, toast |-> "", signingOut |-> FALSE]

IndexUnmounted == [IndexMounted EXCEPT !.pc = "unmounted"]

\* an order as a completed checkout leaves it
PlacedOrder(u, total) ==
    [user_id |-> u, total_price |-> total, payment_status |-> "paid",
     status |-> "queued"]

Sessions == Admins \cup {"cart", "index"}

\* the Admin dashboard open in two browsers, one order placed
InitAdmin ==
    /\ orders = <<PlacedOrder("u2", 130)>>
    /\ order_items = <<>>
    /\ net = {}
    /\ auth \in [Sessions -> Users \cup {NoUser}]
    /\ auth["cart"] = NoUser /\ auth["index"] = NoUser
    /\ admin = [a \in Admins |-> AdminMounted]
    /\ items = <<>>
    /\ cart = CartUnmounted
    /\ index = IndexUnmounted

NextAdmin ==
    \/ \E a \in Admins : checkAdminSession(a)
    \/ \E a \in Admins : checkAdminRoles(a)
    \/ \E a \in Admins : fetchOrdersDone(a)
    \/ \E a \in Admins, i \in DOMAIN orders, s \in {"preparing", "ready", "delivered"} :
          updateOrderStatus(a, i, s)
    \/ \E a \in Admins : updateOrderStatusDone(a)
    \/ ServeSelectRoles
    \/ ServeSelectOrders
    \/ ServeUpdateStatus

SpecAdmin == InitAdmin /\ [][NextAdmin]_vars

\* the carts the menu page can have filled: lines of distinct available items
InitialCarts ==
    {<<>>}
    \cup {<<Line(k, q)>> : k \in 1..2, q \in 1..MaxQty}
    \cup {<<Line(k, q), Line(3 - k, r)>> : k \in 1..2, q \in 1..MaxQty, r \in 1..MaxQty}

\* the Cart page just mounted, the store empty
InitCart ==
    /\ orders = <<>>
    /\ order_items = <<>>
    /\ net = {}
    /\ auth \in [Sessions -> Users \cup {NoUser}]
    /\ \A s \in Sessions \ {"cart"} : auth[s] = NoUser
    /\ admin = [a \in Admins |-> AdminUnmounted]
    /\ items \in InitialCarts
    /\ cart = CartMounted
    /\ index = IndexUnmounted

NextCart ==
    \/ cartGetSession
    \/ \E k \in 1..2, d \in {-1, 1} : cartQuantityButton(k, d)
    \/ \E k \in 1..2 : cartRemoveButton(k)
    \/ handleCheckout
    \/ checkoutOrderDone
    \/ checkoutItemsDone
    \/ checkoutPaidDone
    \/ ServeInsertOrder
    \/ ServeInsertItems
    \/ ServeUpdatePaid

SpecCart == InitCart /\ [][NextCart]_vars

\* the orders table the menu page reads: two users' orders in any statuses
InitialOrderTables ==
    { << [PlacedOrder("u1", 130) EXCEPT !.status = s1],
         [PlacedOrder("u2", 80) EXCEPT !.status = s2],
         [PlacedOrder("u1", 50) EXCEPT !.status = "delivered"] >> :
      s1 \in {"queued", "delivered"}, s2 \in {"ready"} }

\* the Index page just mounted
InitIndex ==
    /\ orders \in InitialOrderTables
    /\ order_items = <<>>
    /\ net = {[op |-> "selectMenu", dir |-> "req", from |-> "index", tag |-> 1]}
    /\ auth \in [Sessions -> Users \cup {NoUser}]
    /\ \A s \in Sessions \ {"index"} : auth[s] = NoUser
    /\ admin = [a \in Admins |-> AdminUnmounted]
    /\ items = <<>>
    /\ cart = CartUnmounted
    /\ index = IndexMounted

NextIndex ==
    \/ checkAuthSession
    \/ checkAuthRoles
    \/ \E u \in Users \cup {NoUser} : onAuthStateChange(u)
    \/ handleSignOut
    \/ handleSignOutDone
    \/ \E m \in Resp("selectMenu", "index") : fetchMenuItemsDone(m)
    \/ \E m \in Resp("selectActive", "index") : fetchActiveOrdersDone(m)
    \/ ServeSelectRoles
    \/ ServeSelectMenu
    \/ ServeSelectActive

SpecIndex == InitIndex /\ [][NextIndex]_vars

\* a customer on the Cart page with two lines in the cart and an admin opening
\* the dashboard, the store empty
InitShop ==
    /\ orders = <<>>
    /\ order_items = <<>>
    /\ net = {}
    /\ auth = [s \in Sessions |-> IF s = "cart" THEN "u2"
                                  ELSE IF s = "a1" THEN "u1" ELSE NoUser]
    /\ admin = [a \in Admins |-> IF a = "a1" THEN AdminMounted ELSE AdminUnmounted]
    /\ items = <<Line(1, 2), Line(2, 1)>>
    /\ cart = CartMounted
    /\ index = IndexUnmounted

\* the checkout of the Cart page, every step of the Admin page, and the store
NextShop ==
    \/ cartGetSession
    \/ handleCheckout
    \/ checkoutOrderDone
    \/ checkoutItemsDone
    \/ checkoutPaidDone
    \/ ServeInsertOrder
    \/ ServeInsertItems
    \/ ServeUpdatePaid
    \/ NextAdmin

SpecShop == InitShop /\ [][NextShop]_vars

\* ================================================================ claims

\* ---------------------------------------------------------------- Admin

\* C1: the stored status of every order only ever moves one step forward along
\* queued -> preparing -> ready -> delivered: no step of the system moves it
\* backward, skips a state, or changes a delivered order.
C1_StoredStatusStepsForward ==
    [][\A i \in DOMAIN orders :
          \/ orders'[i].status = orders[i].status
          \/ /\ orders[i].status # "delivered"
             /\ Rank(orders'[i].status) = Rank(orders[i].status) + 1]_vars

\* the one transition the workflow allows from a status
OneStepForward(status) ==
    CASE status = "queued" -> {"preparing"}
      [] status = "preparing" -> {"ready"}
      [] status = "ready" -> {"delivered"}
      [] OTHER -> {}

\* C2: for every order a dashboard shows, the transitions exposed are decided by
\* its displayed status alone and are at most one (queued: preparing; preparing:
\* ready; ready: delivered; delivered: none), and every update a dashboard issues
\* asks for the one step forward from the status it displays for that order.
C2_ButtonsFollowDisplayedStatus ==
    /\ [](\A a \in Admins : \A k \in 1..Len(RenderedOrders(a)) :
            /\ TransitionButtons(RenderedOrders(a)[k].status)
                   = OneStepForward(RenderedOrders(a)[k].status)
            /\ Cardinality(TransitionButtons(RenderedOrders(a)[k].status)) <= 1)
    /\ [][\A m \in net' \ net :
             (m.op = "updateStatus" /\ m.dir = "req") =>
                 \E k \in 1..Len(RenderedOrders(m.from)) :
                     /\ RenderedOrders(m.from)[k].id = m.id
                     /\ {m.status} = OneStepForward(RenderedOrders(m.from)[k].status)]_vars

\* C2 witness: a dashboard shows an order as preparing and has asked for ready,
\* while the other shows it as delivered
C2_Witness ==
    \E a, b \in Admins :
        /\ Len(RenderedOrders(a)) > 0 /\ RenderedOrders(a)[1].status = "preparing"
        /\ \E m \in Req("updateStatus", a) : m.status = "ready"
        /\ Len(RenderedOrders(b)) > 0 /\ RenderedOrders(b)[1].status = "delivered"

HasAdminRow(u) == \E r \in user_roles : r.user_id = u /\ r.role = "admin"

\* C8: an Admin page whose user has no session, no admin row, or whose role
\* lookup failed ends redirected and never fetches or shows orders: isAdmin, an
\* orders fetch, an update, a held or rendered order list all imply a signed-in
\* user with the admin role whose lookup has returned.
C8_OrdersOnlyForAdmins ==
    \A a \in Admins :
        /\ ( \/ admin[a].isAdmin
             \/ admin[a].orders # <<>>
             \/ RenderedOrders(a) # <<>>
             \/ \E m \in net : m.from = a /\ m.op \in {"selectOrders", "updateStatus"} )
           => /\ auth[a] # NoUser /\ HasAdminRow(auth[a])
              /\ admin[a].pc = "done" /\ admin[a].isAdmin
        /\ (admin[a].pc = "done" /\ ~admin[a].isAdmin)
           => admin[a].nav = (IF auth[a] = NoUser THEN "/auth" ELSE "/")

\* C8 witness: one page was redirected after its admin user's lookup failed, one
\* after finding no admin row or no session, in a store that holds orders
C8_Witness ==
    /\ orders # <<>>
    /\ \E a, b \in Admins :
        /\ auth[a] = "u1" /\ admin[a].pc = "done" /\ admin[a].nav = "/"
        /\ auth[b] = "u2" /\ admin[b].pc = "done" /\ admin[b].nav = "/"

\* ----------------------------------------------------------------- Cart

\* the rows of one order in a table of order_items
ItemsOf(tbl, id) == SelectSeq(tbl, LAMBDA r : r.order_id = id)

\* price x quantity summed over the lines, last line first
RECURSIVE SumTo(_, _)
SumTo(lines, n) ==
    IF n = 0 THEN 0 ELSE SumTo(lines, n - 1) + lines[n].price * lines[n].quantity

WriteOps == {"insertOrder", "insertItems", "updatePaid"}

\* C3: the three writes of a checkout happen in order.  The order insert is issued
\* first, with payment_status pending and status queued; the order_items insert
\* is in flight only once the Order row exists; the paid update is in flight only
\* once the order's order_items rows exist, and is for that same order; so a paid
\* order always has its rows, and every row has its order.
C3_WritesInOrder ==
    /\ \A m \in net :
        /\ (m.op = "insertOrder" /\ m.dir = "req") =>
              /\ m.row.payment_status = "pending" /\ m.row.status = "queued"
              /\ cart.step = "insertOrder"
              /\ \A x \in net : x.op \in WriteOps => x = m
        /\ m.op = "insertItems" =>
              /\ cart.step = "insertItems"
              /\ cart.order \in DOMAIN orders
              /\ orders[cart.order].payment_status = "pending"
              /\ m.dir = "req" =>
                    /\ ItemsOf(order_items, cart.order) = <<>>
                    /\ \A k \in DOMAIN m.rows : m.rows[k].order_id = cart.order
        /\ m.op = "updatePaid" =>
              /\ cart.step = "updatePaid"
              /\ cart.order \in DOMAIN orders
              /\ ItemsOf(order_items, cart.order) # <<>>
              /\ m.dir = "req" =>
                    /\ m.id = cart.order
                    /\ orders[m.id].payment_status = "pending"
    /\ \A i \in DOMAIN orders :
          orders[i].payment_status = "paid" => ItemsOf(order_items, i) # <<>>
    /\ \A k \in DOMAIN order_items : order_items[k].order_id \in DOMAIN orders

\* C3 witness: a checkout went through all three writes: its order is paid and
\* has two rows
C3_Witness ==
    /\ cart.order \in DOMAIN orders
    /\ orders[cart.order].payment_status = "paid"
    /\ Len(ItemsOf(order_items, cart.order)) = 2

ExampleCart == <<Line(1, 2), Line(2, 1)>>

\* C4: once a checkout has inserted its rows, and so when it has completed, the
\* Order's total_price is the sum of price x quantity over the cart lines the
\* checkout was started with, and its order_items rows are exactly one per such
\* line, with that line's item id, quantity and price, whatever the cart holds
\* by then; the cart [{50,2},{30,1}] gives total 130 and two rows of quantities 2
\* and 1.
C4_OrderMatchesCart ==
    (cart.step = "updatePaid" \/ cart.toast = "Order placed successfully!") =>
        LET id == cart.order
            rows == ItemsOf(order_items, id)
        IN  /\ orders[id].total_price = SumTo(cart.closure, Len(cart.closure))
            /\ Len(rows) = Len(cart.closure)
            /\ \A k \in DOMAIN rows :
                  /\ rows[k].order_id = id
                  /\ rows[k].menu_item_id = cart.closure[k].id
                  /\ rows[k].quantity = cart.closure[k].quantity
                  /\ rows[k].price = cart.closure[k].price
            /\ cart.closure = ExampleCart =>
                  /\ orders[id].total_price = 130
                  /\ Len(rows) = 2 /\ rows[1].quantity = 2 /\ rows[2].quantity = 1

\* C4 witness: the checkout of the example cart completed
C4_Witness ==
    /\ cart.toast = "Order placed successfully!"
    /\ cart.nav = Track(cart.order)
    /\ cart.closure = ExampleCart
    /\ orders[cart.order].payment_status = "paid"

\* C5: a checkout attempt issues a write only with a non-empty cart and a user id,
\* the signed-in user's.  While no checkout is in flight and the cart is empty or
\* the user id is unset, no step writes to the store or issues a write; with an
\* empty cart the attempt changes nothing; with lines in the cart and no user id
\* it only navigates to /auth.
C5_NoWriteUnlessCartAndUser ==
    [][/\ \A m \in net' \ net :
            (m.op = "insertOrder" /\ m.dir = "req") =>
                /\ items # <<>>
                /\ cart.userId # NoUser /\ cart.userId = auth["cart"]
                /\ m.row.user_id = cart.userId
       /\ (~cart.loading /\ (items = <<>> \/ cart.userId = NoUser)) =>
            /\ orders' = orders /\ order_items' = order_items
            /\ \A m \in net' \ net : m.op \notin WriteOps
       /\ (~cart.loading /\ items = <<>> /\ cart'.pc = cart.pc) => cart' = cart
       /\ (cart.userId = NoUser /\ items # <<>> /\ cart'.pc = cart.pc /\ cart' # cart) =>
            cart' = [cart EXCEPT !.nav = "/auth"]]_vars

\* C5 witness: with no session and lines in the cart, the attempt redirected to
\* /auth before the session lookup returned, and nothing was written
C5_Witness ==
    /\ auth["cart"] = NoUser /\ items # <<>>
    /\ cart.pc = "getSession" /\ cart.nav = "/auth"
    /\ orders = <<>> /\ order_items = <<>> /\ net = {}

\* C6: when a checkout step fails, that step of the handler issues nothing more,
\* raises an error notification with the error's message, and leaves the store as
\* it is: after a failed order_items insert the Order is pending with no rows,
\* after a failed payment update it is pending with its rows.
C6_FailureStopsAndKeepsRows ==
    [][\A m \in net \ net' :
          (m.from = "cart" /\ m.dir = "resp" /\ ~m.ok) =>
              /\ net' = net \ {m}
              /\ orders' = orders /\ order_items' = order_items
              /\ cart'.toast = (IF m.message # "" THEN m.message
                                ELSE "Failed to place order")
              /\ cart'.step = "idle"
              /\ m.op = "insertOrder" => cart'.order = cart.order
              /\ m.op = "insertItems" =>
                    /\ orders'[cart.order].payment_status = "pending"
                    /\ ItemsOf(order_items', cart.order) = <<>>
              /\ m.op = "updatePaid" =>
                    /\ orders'[cart.order].payment_status = "pending"
                    /\ ItemsOf(order_items', cart.order)
                           = orderItems(cart.order, cart.closure)]_vars

\* C6 witness: a checkout failed at the payment update: the handler has ended
\* with the error's message raised, and the order is pending with its two rows
C6_Witness ==
    /\ cart.step = "idle" /\ ~cart.loading /\ cart.toast = "backend error"
    /\ net = {}
    /\ cart.order \in DOMAIN orders
    /\ orders[cart.order].payment_status = "pending"
    /\ Len(ItemsOf(order_items, cart.order)) = 2

\* C7: the handler clears the cart and navigates to the new order's tracking view
\* in the step that receives the successful payment update, and in no other: a
\* step that receives a failure leaves the cart's lines and the location as they
\* are and resets loading, a step that receives an earlier success leaves them
\* and keeps loading set.  The location is a tracking view only of a paid order
\* with its rows.
C7_ClearAndNavigateIffSuccess ==
    /\ [][\A m \in net \ net' :
             (m.from = "cart" /\ m.dir = "resp") =>
                 IF m.op = "updatePaid" /\ m.ok
                 THEN /\ items' = <<>>
                      /\ cart'.nav = Track(cart.order)
                      /\ ~cart'.loading
                 ELSE /\ items' = items
                      /\ cart'.nav = cart.nav
                      /\ cart'.loading = m.ok
                      /\ ~m.ok => cart'.step = "idle"]_vars
    /\ [][cart'.nav \notin {cart.nav, "/auth"} =>
             \E m \in net \ net' : m.op = "updatePaid" /\ m.dir = "resp" /\ m.ok]_vars
    /\ [](cart.nav \notin {"", "/auth"} =>
             /\ cart.nav = Track(cart.order)
             /\ orders[cart.order].payment_status = "paid"
             /\ ItemsOf(order_items, cart.order) # <<>>)

\* C7 witness: a checkout failed after creating its order: the cart holds its
\* lines, the page is where it was, and loading is reset
C7_Witness ==
    /\ cart.toast \in {"backend error", "Failed to place order"}
    /\ cart.step = "idle" /\ ~cart.loading /\ cart.nav = ""
    /\ orders # <<>>
    /\ items # <<>> /\ items = cart.closure

\* ---------------------------------------------------------------- Index

\* C9: the active-orders list changes only by being set to the rows of a
\* successful active-orders query; every such query is issued for the user
\* signed in when it is issued; its rows are orders of that user whose status,
\* when the query is served, is queued, preparing or ready, so never an order
\* delivered by then; and the list is rendered only while a user is set.
C9_ActiveOrdersFromOwnActiveQuery ==
    /\ [](/\ \A k \in DOMAIN index.activeOrders :
                index.activeOrders[k].status \in {"queued", "preparing", "ready"}
          /\ \E u \in Users :
                \A k \in DOMAIN index.activeOrders : index.activeOrders[k].user_id = u
          /\ RenderedActiveOrders # <<>> => index.user # NoUser)
    /\ [][/\ \A m \in net' \ net :
               (m.op = "selectActive" /\ m.dir = "req") =>
                   /\ m.user_id # NoUser
                   /\ m.user_id = index'.user /\ m.user_id = auth'["index"]
          /\ \A m \in net' \ net :
               (m.op = "selectActive" /\ m.dir = "resp") =>
                   \A k \in DOMAIN m.rows :
                       /\ m.rows[k].id \in DOMAIN orders
                       /\ orders[m.rows[k].id].user_id = m.user_id
                       /\ orders[m.rows[k].id].status = m.rows[k].status
                       /\ orders[m.rows[k].id].status # "delivered"
                       /\ m.rows[k].status \in {"queued", "preparing", "ready"}
          /\ index'.activeOrders # index.activeOrders =>
               \E m \in net \ net' :
                   /\ m.op = "selectActive" /\ m.dir = "resp" /\ m.ok
                   /\ index'.activeOrders = m.rows]_vars

\* C9 witness: u1, who has a queued and a delivered order, sees a list of one
C9_Witness ==
    /\ index.user = "u1"
    /\ orders[1].status = "queued" /\ orders[3].status = "delivered"
    /\ Len(RenderedActiveOrders) = 1 /\ RenderedActiveOrders[1].id = 1

\* C10, as claimed: whenever a menu fetch fails, a notification is raised, the
\* menu is left empty, loading is reset and no fetch is issued, for every fetch
\* the page issues.
C10_FailedFetchLeavesMenuEmpty ==
    [][\A m \in net \ net' :
          (m.op = "selectMenu" /\ m.dir = "resp" /\ ~m.ok) =>
              /\ index'.toast = "Failed to load menu"
              /\ index'.menuItems = <<>>
              /\ ~index'.loading
              /\ \A x \in net' \ net : x.op # "selectMenu"]_vars

\* C10, amended: whenever a menu fetch fails, a notification is raised, the menu
\* is left as it was (empty only if no earlier fetch succeeded), loading is reset
\* and no fetch is issued, for every fetch the page issues.
C10_FailedFetchLeavesMenuUnchanged ==
    [][\A m \in net \ net' :
          (m.op = "selectMenu" /\ m.dir = "resp" /\ ~m.ok) =>
              /\ index'.toast = "Failed to load menu"
              /\ index'.menuItems = index.menuItems
              /\ ~index'.loading
              /\ net' = net \ {m}]_vars

\* C10 witness: a fetch failed after an earlier one had loaded the menu
C10_Witness ==
    /\ index.toast = "Failed to load menu"
    /\ index.menuItems # <<>>
    /\ ~index.loading
    /\ FetchesInFlight("selectMenu") = 0

\* C11: once the mount's checkAuth has finished and no sign-out is pending, the
\* Admin button is shown iff a user is signed in on the page and that user's
\* user_roles contain admin, across auth-state-change events and sign-out.
C11_AdminButtonIffAdmin ==
    (index.pc = "done" /\ ~index.signingOut) =>
        (RenderedAdminButton <=> (index.user # NoUser /\ HasAdminRow(index.user)))

\* ---------------------------------------------------------------- Admin

\* C12: when an admin session reads the result of a status update that
\* succeeded, it issues a fetch of all orders (loading set, list not touched in
\* that step); when the update failed, it issues nothing and its state is
\* unchanged; the orders list of a session changes only by being replaced with
\* the rows of a successful fetch; a failed fetch leaves the list as it was and
\* resets loading.
C12_RefetchAfterUpdate ==
    [][\A a \in Admins :
        /\ \A m \in net \ net' :
             (m.op = "updateStatus" /\ m.dir = "resp" /\ m.from = a) =>
                 IF m.ok
                 THEN /\ \E f \in net' \ net :
                           f.op = "selectOrders" /\ f.dir = "req" /\ f.from = a
                      /\ admin'[a].loading
                      /\ admin'[a].orders = admin[a].orders
                 ELSE /\ net' = net \ {m}
                      /\ admin'[a] = admin[a]
        /\ \A m \in net \ net' :
             (m.op = "selectOrders" /\ m.dir = "resp" /\ m.from = a) =>
                 IF m.ok
                 THEN admin'[a].orders = m.rows
                 ELSE admin'[a].orders = admin[a].orders /\ ~admin'[a].loading
        /\ admin'[a].orders # admin[a].orders =>
             \E m \in net \ net' :
                 /\ m.op = "selectOrders" /\ m.dir = "resp" /\ m.from = a /\ m.ok
                 /\ admin'[a].orders = m.rows]_vars

\* C12 witness: an update of a displayed order succeeded, the refetch is in
\* flight, and the session's list still holds the row as fetched before
C12_Witness ==
    \E a \in Admins :
        /\ admin[a].loading
        /\ Req("selectOrders", a) # {}
        /\ Len(admin[a].orders) = 1
        /\ admin[a].orders[1].status = "queued"
        /\ orders[1].status = "preparing"

\* ----------------------------------------------------------- whole store

\* C13: under any interleaving of a customer's checkouts and an admin's actions,
\* every paid order is the order of the checkout that created it and has that
\* checkout's order_items rows, one per cart line, whose price x quantity sum to
\* its total_price; no step changes an order's total_price or owner; a
\* payment_status changes only from pending to paid and only when the store serves
\* the paid update of the checkout that created the order; and serving an admin's
\* status update changes no payment_status and no order_items row.
C13_PaidOrdersKeepRowsAndTotal ==
    /\ [](\A i \in DOMAIN orders :
            orders[i].payment_status = "paid" =>
                LET rows == ItemsOf(order_items, i)
                IN  /\ i = cart.order
                    /\ rows # <<>>
                    /\ rows = orderItems(i, cart.closure)
                    /\ orders[i].total_price = SumTo(rows, Len(rows)))
    /\ [][/\ \A i \in DOMAIN orders :
               /\ i \in DOMAIN orders'
               /\ orders'[i].total_price = orders[i].total_price
               /\ orders'[i].user_id = orders[i].user_id
               /\ orders'[i].payment_status # orders[i].payment_status =>
                     /\ orders[i].payment_status = "pending"
                     /\ orders'[i].payment_status = "paid"
                     /\ i = cart.order
                     /\ \E m \in net \ net' :
                           m.op = "updatePaid" /\ m.dir = "req" /\ m.from = "cart"
                           /\ m.id = i
          /\ \A m \in net \ net' :
               (m.op = "updateStatus" /\ m.dir = "req") =>
                   /\ order_items' = order_items
                   /\ \A i \in DOMAIN orders :
                         orders'[i].payment_status = orders[i].payment_status]_vars

\* C13 witness: the admin moved the status of an order that the checkout of a
\* two-line cart has paid
C13_Witness ==
    /\ cart.order \in DOMAIN orders
    /\ orders[cart.order].payment_status = "paid"
    /\ orders[cart.order].status = "preparing"
    /\ Len(ItemsOf(order_items, cart.order)) = 2
    /\ \E a \in Admins : admin[a].isAdmin

====
